---------------------------- MODULE Spec2Model ----------------------------
(***************************************************************************)
(* A model of the yCPU simulator (y_cpu/src/lib.rs): the banked memories,  *)
(* the address-space router (load/push), the instruction decoder           *)
(* (Instruction::from_3bytes) and the execution engine (tick = fetch then  *)
(* process).                                                               *)
(*                                                                         *)
(* A Banker holds 256 copies of one bank.  The model keeps the same        *)
(* contents in a compact form: `base` is the bank that Banker::new         *)
(* broadcast into all 256 slots and `delta` maps every cell <<bank, i>>    *)
(* written since to its byte; the cell <<bank, i>> holds delta[bank, i]    *)
(* if it was written and base[i] otherwise.  The images explored are 0     *)
(* after a short prefix, and a bank is kept as its length and that prefix. *)
(*                                                                         *)
(* A Rust panic ends the program: the model records it (status =           *)
(* "panicked") with the CPU fields as they were when the panic was raised. *)
(* Integer overflow of +, - and * panics when the build has overflow       *)
(* checks (debug profile) and wraps when it has not (release profile);     *)
(* overflow_checks is the choice of build.                                 *)
(***************************************************************************)
EXTENDS Integers, Naturals, Sequences, FiniteSets, TLC

VARIABLES
    cpu,              \* the CPU struct: reg_zero, inst_mem, data_mem, devices
    status,           \* "running", or "panicked" once a panic was raised
    overflow_checks,  \* TRUE: arithmetic overflow panics; FALSE: it wraps
    last,             \* the last operation: its arguments, what it read, its result
    ticks,            \* number of ticks issued
    calls             \* number of direct load/push calls issued

vars == <<cpu, status, overflow_checks, last, ticks, calls>>

----------------------------------------------------------------------------
(* Sizes and the address partition *)

BankCount == 256
InstBankLen == 127
DataBankLen == 64
DeviceBase == 194
DataBase == 128
InstPtrAddr == 192
DataPtrAddr == 193
InstWidth == 3

U8 == 0..255

----------------------------------------------------------------------------
(* Bounds of the exploration *)

MaxTicks == 2
MaxCalls == 1

----------------------------------------------------------------------------
(* Machine integers *)

\* i8::from_be_bytes([b]): the byte read as two's complement
I8FromByte(b) == IF b >= 128 THEN b - 256 ELSE b

\* `x as u8`: the low 8 bits
AsU8(x) == x % 256

\* Rust's integer division truncates toward zero
TruncDiv(a, b) ==
    IF (a >= 0) = (b >= 0)
    THEN (IF a >= 0 THEN a ELSE -a) \div (IF b >= 0 THEN b ELSE -b)
    ELSE -((IF a >= 0 THEN a ELSE -a) \div (IF b >= 0 THEN b ELSE -b))

\* the result of an arithmetic expression: ok = FALSE is a panic
Val(v) == [ok |-> TRUE, val |-> v]
Fail == [ok |-> FALSE, val |-> 0]

\* u8 `a + b`, `a - b`, `a * b`, `a / b`
U8Add(a, b, oc) == IF oc /\ a + b > 255 THEN Fail ELSE Val((a + b) % 256)
U8Sub(a, b, oc) == IF oc /\ a - b < 0 THEN Fail ELSE Val((a - b) % 256)
U8Mul(a, b, oc) == IF oc /\ a * b > 255 THEN Fail ELSE Val((a * b) % 256)
U8Div(a, b, oc) == IF b = 0 THEN Fail ELSE Val(a \div b)

\* the two's complement wrap of an integer into i8
WrapI8(x) == I8FromByte(x % 256)
InI8(x) == x >= -128 /\ x <= 127

\* i8 `a + b`, `a - b`, `a * b`, `a / b`, then `as u8`
I8Add(a, b, oc) == IF oc /\ ~InI8(a + b) THEN Fail ELSE Val(AsU8(WrapI8(a + b)))
I8Sub(a, b, oc) == IF oc /\ ~InI8(a - b) THEN Fail ELSE Val(AsU8(WrapI8(a - b)))
I8Mul(a, b, oc) == IF oc /\ ~InI8(a * b) THEN Fail ELSE Val(AsU8(WrapI8(a * b)))
I8Div(a, b, oc) ==
    IF b = 0 \/ (a = -128 /\ b = -1) THEN Fail ELSE Val(AsU8(TruncDiv(a, b)))

\* i16 `a + b`, `a - b`, `a * b`, `a / b`, then `as u8`
InI16(x) == x >= -32768 /\ x <= 32767
I16Add(a, b, oc) == IF oc /\ ~InI16(a + b) THEN Fail ELSE Val(AsU8(a + b))
I16Sub(a, b, oc) == IF oc /\ ~InI16(a - b) THEN Fail ELSE Val(AsU8(a - b))
I16Mul(a, b, oc) == IF oc /\ ~InI16(a * b) THEN Fail ELSE Val(AsU8(a * b))
\* a guarded i16 division: a zero divisor yields 0
I16DivZeroGuarded(a, b, oc) == IF b = 0 THEN Val(0) ELSE Val(AsU8(TruncDiv(a, b)))
I16Div(a, b, oc) == IF b = 0 THEN Fail ELSE Val(AsU8(TruncDiv(a, b)))

\* bitwise operators on bytes
RECURSIVE BitAnd(_, _)
BitAnd(a, b) ==
    IF a = 0 \/ b = 0 THEN 0
    ELSE ((a % 2) * (b % 2)) + (2 * BitAnd(a \div 2, b \div 2))

RECURSIVE BitOr(_, _)
BitOr(a, b) ==
    IF a = 0 THEN b
    ELSE IF b = 0 THEN a
    ELSE (IF (a % 2) = 1 \/ (b % 2) = 1 THEN 1 ELSE 0) + (2 * BitOr(a \div 2, b \div 2))

RECURSIVE FlipBits(_, _)
FlipBits(a, n) ==
    IF n = 0 THEN 0 ELSE (1 - (a % 2)) + (2 * FlipBits(a \div 2, n - 1))

\* `!a` on a u8
BitNot(a) == FlipBits(a, 8)
\* `a << 1`, `a >> 1` on a u8: the bit shifted out is dropped
Shl1(a) == (a * 2) % 256
\* an arithmetic shift right: the sign bit is kept
Shr1Arithmetic(a) == (a \div 2) + (IF a >= 128 THEN 128 ELSE 0)
Shr1(a) == a \div 2
\* u8::rotate_left(a, 1), u8::rotate_right(a, 1)
RotateLeft1(a) == ((a * 2) % 256) + (a \div 128)
RotateRight1(a) == (a \div 2) + ((a % 2) * 128)

----------------------------------------------------------------------------
(* Banker<T>: 256 banks of one shape and the pointer of the active one *)

\* The bank handed to Banker::new: `len` bytes, those of `head` first and 0
\* after them
Bank(len, head) == [len |-> len, head |-> head]

\* content[i] of such a bank, for i inside it
BankAt(content, i) == IF i < Len(content.head) THEN content.head[i + 1] ELSE 0

\* Banker::new(content): every bank is a copy of `content`, pointer 0
BankerNew(content) == [base |-> content, delta |-> <<>>, pointer |-> 0]

\* the fixed width of the banks of b (the length of T)
BankLen(b) == b.base.len

\* content[bank][i], for bank in 0..255 and i inside the bank
Cell(b, bank, i) ==
    IF <<bank, i>> \in DOMAIN b.delta THEN b.delta[<<bank, i>>]
    ELSE BankAt(b.base, i)

\* an index that forgets the pointer and reads bank 0
BankerIndexBankZero(b, index) ==
    IF index < BankLen(b) THEN Val(Cell(b, 0, index)) ELSE Fail

\* Index::index: &self.content[self.pointer][index]; an index outside the
\* bank is a panic (pointer is a u8 and there are 256 banks: always inside)
BankerIndex(b, index) ==
    IF index < BankLen(b) THEN Val(Cell(b, b.pointer, index)) ELSE Fail

\* the banker with content[bank][i] = data
SetCell(b, bank, i, data) ==
    [b EXCEPT !.delta =
        [k \in (DOMAIN b.delta) \cup {<<bank, i>>} |->
            IF k = <<bank, i>> THEN data ELSE b.delta[k]]]

\* an index_mut that forgets the pointer and writes bank 0
BankerIndexMutBankZero(b, index, data) ==
    IF index < BankLen(b)
    THEN [ok |-> TRUE, banker |-> SetCell(b, 0, index, data)]
    ELSE [ok |-> FALSE, banker |-> b]

\* IndexMut::index_mut followed by the assignment:
\* self.content[self.pointer][index] = data
BankerIndexMut(b, index, data) ==
    IF index < BankLen(b)
    THEN [ok |-> TRUE, banker |-> SetCell(b, b.pointer, index, data)]
    ELSE [ok |-> FALSE, banker |-> b]

----------------------------------------------------------------------------
(* CPU::new *)

\* mapped_devices[address] = device, on a Vec of length Len(mapped)
\* (Vec::with_capacity reserves room, the length stays 0)
VecAssign(mapped, address, device) ==
    IF address >= 0 /\ address < Len(mapped)
    THEN [ok |-> TRUE, vec |-> [mapped EXCEPT ![address + 1] = device]]
    ELSE [ok |-> FALSE, vec |-> mapped]

\* the loop of CPU::new over the devices supplied
RECURSIVE MapDevices(_, _)
MapDevices(mapped, devices) ==
    IF devices = <<>> THEN [ok |-> TRUE, vec |-> mapped]
    ELSE LET r == VecAssign(mapped, Head(devices).address - DeviceBase, Head(devices))
         IN  IF r.ok THEN MapDevices(r.vec, Tail(devices)) ELSE r

\* the CPU struct before any construction succeeded
NoCPU == [reg_zero |-> 0, inst_mem |-> <<>>, data_mem |-> <<>>, devices |-> <<>>]

\* CPU::new(inst_mem, devices)
new(image, devices) ==
    LET m == MapDevices(<<>>, devices)
    IN  IF ~m.ok THEN [ok |-> FALSE, cpu |-> NoCPU]
        ELSE [ok |-> TRUE,
              cpu |-> [reg_zero |-> 0,
                       inst_mem |-> BankerNew(image),
                       data_mem |-> BankerNew(Bank(DataBankLen, <<>>)),
                       devices |-> m.vec]]

----------------------------------------------------------------------------
(* The address-space router: CPU::load and CPU::push *)

\* CPU::load(addr)
load(c, addr) ==
    IF addr = 0 THEN Val(c.reg_zero)
    ELSE IF addr >= 1 /\ addr <= 127 THEN BankerIndex(c.inst_mem, addr)
    ELSE IF addr >= 128 /\ addr <= 191 THEN BankerIndex(c.data_mem, addr - DataBase)
    ELSE IF addr = InstPtrAddr THEN Val(c.inst_mem.pointer)
    ELSE IF addr = DataPtrAddr THEN Val(c.data_mem.pointer)
    ELSE Fail

\* the CPU after an assignment through inst_mem / data_mem; a panic of the
\* index leaves the CPU as it was
WithInstMem(c, w) == [ok |-> w.ok, cpu |-> [c EXCEPT !.inst_mem = w.banker]]
WithDataMem(c, w) == [ok |-> w.ok, cpu |-> [c EXCEPT !.data_mem = w.banker]]

\* CPU::push(addr, data): ok = FALSE is a panic
push(c, addr, data) ==
    IF addr = 0 THEN [ok |-> TRUE, cpu |-> [c EXCEPT !.reg_zero = data]]
    ELSE IF addr >= 1 /\ addr <= 127 THEN
        WithInstMem(c, BankerIndexMut(c.inst_mem, addr, data))
    ELSE IF addr >= 128 /\ addr <= 191 THEN
        WithDataMem(c, BankerIndexMut(c.data_mem, addr - DataBase, data))
    ELSE IF addr = InstPtrAddr THEN
        [ok |-> TRUE, cpu |-> [c EXCEPT !.inst_mem.pointer = data]]
    ELSE IF addr = DataPtrAddr THEN
        [ok |-> TRUE, cpu |-> [c EXCEPT !.data_mem.pointer = data]]
    ELSE [ok |-> FALSE, cpu |-> c]

----------------------------------------------------------------------------
(* Instruction::from_3bytes *)

Flags(b0) ==
    [halt_on_error    |-> BitAnd(b0, 128) = 128,
     store_debug_info |-> BitAnd(b0, 64) = 64,
     arg1_signed      |-> BitAnd(b0, 32) = 32,
     arg2_signed      |-> BitAnd(b0, 16) = 16]

\* the variants and their arity
Inst0(op, b0) == [op |-> op] @@ Flags(b0)
Inst1(op, b0, arg1) == [op |-> op, arg1 |-> arg1] @@ Flags(b0)
Inst2(op, b0, arg1, arg2) == [op |-> op, arg1 |-> arg1, arg2 |-> arg2] @@ Flags(b0)

\* an opcode field of 3 bits
OpcodeThreeBits(b0) == BitAnd(b0, 7)

\* the opcode field of byte 0
Opcode(b0) == BitAnd(b0, 15)

from_3bytes(bytes) ==
    LET b0 == bytes[1]
        arg1 == bytes[2]
        arg2 == bytes[3]
        opcode == Opcode(b0)
    IN  CASE opcode = 0 -> Inst0("NoOp", b0)
          [] opcode = 1 -> Inst2("And", b0, arg1, arg2)
          [] opcode = 2 -> Inst2("Or", b0, arg1, arg2)
          [] opcode = 3 -> Inst1("Not", b0, arg1)
          [] opcode = 4 -> Inst2("Add", b0, arg1, arg2)
          [] opcode = 5 -> Inst2("Sub", b0, arg1, arg2)
          [] opcode = 6 -> Inst2("Mul", b0, arg1, arg2)
          [] opcode = 7 -> Inst2("Div", b0, arg1, arg2)
          [] opcode = 8 -> Inst1("SL", b0, arg1)
          [] opcode = 9 -> Inst1("SR", b0, arg1)
          [] opcode = 10 -> Inst1("RL", b0, arg1)
          [] opcode = 11 -> Inst1("RR", b0, arg1)
          [] opcode = 12 -> Inst2("Copy", b0, arg1, arg2)
          [] opcode = 13 -> Inst2("CompEq", b0, arg1, arg2)
          [] opcode = 14 -> Inst2("CompGt", b0, arg1, arg2)
          [] opcode = 15 -> Inst2("CompLt", b0, arg1, arg2)
          [] OTHER -> [op |-> "InvalidOpcode"]

----------------------------------------------------------------------------
(* CPU::fetch *)

\* the array literal of fetch: its three elements in order; one that
\* panicked (an index outside the bank, an overflowing addition) ends it
Bytes3(i0, i1, i2) ==
    IF i0.ok /\ i1.ok /\ i2.ok
    THEN [ok |-> TRUE, bytes |-> <<i0.val, i1.val, i2.val>>]
    ELSE [ok |-> FALSE, bytes |-> <<>>]

\* self.inst_mem[a as usize], a being the result of a u8 addition
IndexAt(b, a) == IF a.ok THEN BankerIndex(b, a.val) ELSE Fail

\* the bytes at inst_mem[reg_zero], inst_mem[reg_zero + 1] and
\* inst_mem[reg_zero + 2] of the active instruction bank
fetch(c, oc) ==
    Bytes3(BankerIndex(c.inst_mem, c.reg_zero),
           IndexAt(c.inst_mem, U8Add(c.reg_zero, 1, oc)),
           IndexAt(c.inst_mem, U8Add(c.reg_zero, 2, oc)))

----------------------------------------------------------------------------
(* CPU::process: the match on the instruction, then the advance *)

\* a step of process: ok = FALSE is a panic, cpu the CPU at that point
Done(c) == [ok |-> TRUE, cpu |-> c]
Panicked(c) == [ok |-> FALSE, cpu |-> c]

\* the expressions pushed by And and Or
BitwiseOp(op, data1, data2) ==
    IF op = "And" THEN BitAnd(data1, data2) ELSE BitOr(data1, data2)

\* self.push(arg1, data1 & data2) / (data1 | data2) once both loads returned
StoreBitwise(c, inst, l1, l2) ==
    IF ~l1.ok \/ ~l2.ok THEN Panicked(c)
    ELSE push(c, inst.arg1, BitwiseOp(inst.op, l1.val, l2.val))

\* an And/Or that stores at arg2
BitwiseBinaryToArg2(c, inst) ==
    StoreBitwise(c, [inst EXCEPT !.arg1 = inst.arg2],
                 load(c, inst.arg1), load(c, inst.arg2))

\* And, Or: load arg1, load arg2, push(arg1, result)
BitwiseBinary(c, inst) ==
    StoreBitwise(c, inst, load(c, inst.arg1), load(c, inst.arg2))

\* the expressions pushed by Not, SL, SR, RL and RR
UnaryOp(op, data1) ==
    CASE op = "Not" -> BitNot(data1)
      [] op = "SL"  -> Shl1(data1)
      [] op = "SR"  -> Shr1(data1)
      [] op = "RL"  -> RotateLeft1(data1)
      [] op = "RR"  -> RotateRight1(data1)

\* self.push(arg1, result) once the load returned
StoreUnary(c, inst, l1) ==
    IF ~l1.ok THEN Panicked(c)
    ELSE push(c, inst.arg1, UnaryOp(inst.op, l1.val))

\* Not, SL, SR, RL, RR: load arg1, push(arg1, result)
Unary(c, inst) == StoreUnary(c, inst, load(c, inst.arg1))

\* the arithmetic of Add, Sub, Mul and Div on i8, on i16 and on u8
I8Op(op, a, b, oc) ==
    CASE op = "Add" -> I8Add(a, b, oc)
      [] op = "Sub" -> I8Sub(a, b, oc)
      [] op = "Mul" -> I8Mul(a, b, oc)
      [] op = "Div" -> I8Div(a, b, oc)

I16Op(op, a, b, oc) ==
    CASE op = "Add" -> I16Add(a, b, oc)
      [] op = "Sub" -> I16Sub(a, b, oc)
      [] op = "Mul" -> I16Mul(a, b, oc)
      [] op = "Div" -> I16Div(a, b, oc)

U8Op(op, a, b, oc) ==
    CASE op = "Add" -> U8Add(a, b, oc)
      [] op = "Sub" -> U8Sub(a, b, oc)
      [] op = "Mul" -> U8Mul(a, b, oc)
      [] op = "Div" -> U8Div(a, b, oc)

\* a match whose mixed arms do not widen: both bytes are read as i8
SignedNoWidening(inst, b1, b2, oc) ==
    IF inst.arg1_signed \/ inst.arg2_signed
        THEN I8Op(inst.op, I8FromByte(b1), I8FromByte(b2), oc)
    ELSE U8Op(inst.op, b1, b2, oc)

\* the match on (sign1, sign2) of Add, Sub, Mul and Div, on the two bytes
\* loaded
Signed(inst, b1, b2, oc) ==
    IF inst.arg1_signed /\ inst.arg2_signed
        THEN I8Op(inst.op, I8FromByte(b1), I8FromByte(b2), oc)
    ELSE IF inst.arg1_signed
        THEN I16Op(inst.op, I8FromByte(b1), b2, oc)
    ELSE IF inst.arg2_signed
        THEN I16Op(inst.op, b1, I8FromByte(b2), oc)
    ELSE U8Op(inst.op, b1, b2, oc)

\* self.push(dest, r) for the result r of an arithmetic expression, which
\* may have panicked
StoreChecked(c, dest, r) ==
    IF ~r.ok THEN Panicked(c) ELSE push(c, dest, r.val)

StoreArithmetic(c, inst, oc, l1, l2) ==
    IF ~l1.ok \/ ~l2.ok THEN Panicked(c)
    ELSE StoreChecked(c, inst.arg1, Signed(inst, l1.val, l2.val, oc))

\* Add, Sub, Mul, Div: load arg1, load arg2, push(arg1, result)
Arithmetic(c, inst, oc) ==
    StoreArithmetic(c, inst, oc, load(c, inst.arg1), load(c, inst.arg2))

\* self.push(arg2, data1) once the load returned
StoreCopy(c, inst, l1) ==
    IF ~l1.ok THEN Panicked(c) ELSE push(c, inst.arg2, l1.val)

\* Copy: load arg1, push(arg2, data1)
ExecCopy(c, inst) == StoreCopy(c, inst, load(c, inst.arg1))

\* the conditions under which a comparison skips the next instruction
SkipCompEq(data1, data2) == data1 # data2
\* a CompGt that skips only when data1 is smaller
SkipCompGtStrict(data1, data2) == data1 < data2
SkipCompGt(data1, data2) == data1 <= data2
SkipCompLt(data1, data2) == data1 >= data2

Skips(op, data1, data2) ==
    CASE op = "CompEq" -> SkipCompEq(data1, data2)
      [] op = "CompGt" -> SkipCompGt(data1, data2)
      [] op = "CompLt" -> SkipCompLt(data1, data2)

\* self.reg_zero = a for the result a of a u8 addition, which may have
\* panicked
SetRegZero(c, a) ==
    IF ~a.ok THEN Panicked(c) ELSE Done([c EXCEPT !.reg_zero = a.val])

\* the `if` of a comparison once both loads returned
SkipNext(c, inst, oc, l1, l2) ==
    IF ~l1.ok \/ ~l2.ok THEN Panicked(c)
    ELSE IF ~Skips(inst.op, l1.val, l2.val) THEN Done(c)
    ELSE SetRegZero(c, U8Add(c.reg_zero, InstWidth, oc))

\* a comparison that honours the sign flags, as the arithmetic arms do: a
\* flagged byte is compared as two's complement
CompareHonouringSigns(c, inst, oc) ==
    SkipNext(c, inst, oc,
             [ok |-> load(c, inst.arg1).ok,
              val |-> IF inst.arg1_signed THEN I8FromByte(load(c, inst.arg1).val)
                      ELSE load(c, inst.arg1).val],
             [ok |-> load(c, inst.arg2).ok,
              val |-> IF inst.arg2_signed THEN I8FromByte(load(c, inst.arg2).val)
                      ELSE load(c, inst.arg2).val])

\* CompEq, CompGt, CompLt: load arg1, load arg2, reg_zero += 3 when skipping
Compare(c, inst, oc) ==
    SkipNext(c, inst, oc, load(c, inst.arg1), load(c, inst.arg2))

\* the match of process
execute(c, inst, oc) ==
    CASE inst.op = "NoOp" -> Done(c)
      [] inst.op \in {"And", "Or"} -> BitwiseBinary(c, inst)
      [] inst.op \in {"Not", "SL", "SR", "RL", "RR"} -> Unary(c, inst)
      [] inst.op \in {"Add", "Sub", "Mul", "Div"} -> Arithmetic(c, inst, oc)
      [] inst.op = "Copy" -> ExecCopy(c, inst)
      [] inst.op \in {"CompEq", "CompGt", "CompLt"} -> Compare(c, inst, oc)
      [] OTHER -> Panicked(c)

\* a process that consults halt_on_error
ProcessReturnHaltOnError(inst) == IF inst.halt_on_error THEN "Halted" ELSE "Running"

\* a process whose NoOp stops the engine
ProcessReturnNoOpHalts(inst) == IF inst.op = "NoOp" THEN "Halted" ELSE "Running"

\* the value process returns
ProcessReturn(inst) == "Running"

\* what the call of process comes to: ret is the value returned, "Panic"
\* when it panicked; cpu is the CPU at that point
Returned(r, inst) ==
    [cpu |-> r.cpu, ret |-> IF r.ok THEN ProcessReturn(inst) ELSE "Panic"]

\* self.reg_zero += 3, after the match
Advance(e, inst, oc) ==
    IF ~e.ok THEN Returned(e, inst)
    ELSE Returned(SetRegZero(e.cpu, U8Add(e.cpu.reg_zero, InstWidth, oc)), inst)

\* a process that advances reg_zero before the match
processAdvanceFirst(c, inst, oc) ==
    Returned(execute([c EXCEPT !.reg_zero = (c.reg_zero + InstWidth) % 256], inst, oc), inst)

\* CPU::process(inst)
process(c, inst, oc) == Advance(execute(c, inst, oc), inst, oc)

----------------------------------------------------------------------------
(* CPU::tick: fetch, decode, process *)

NoInst == [op |-> "None"]

\* the outcome of a tick with what it fetched and decoded
Traced(p, bytes, inst) ==
    [cpu |-> p.cpu, ret |-> p.ret, fetched |-> bytes, inst |-> inst]

Executed(c, oc, bytes, inst) == Traced(process(c, inst, oc), bytes, inst)

Decoded(c, oc, f) ==
    IF ~f.ok THEN Traced([cpu |-> c, ret |-> "Panic"], <<>>, NoInst)
    ELSE Executed(c, oc, f.bytes, from_3bytes(f.bytes))

tick(c, oc) == Decoded(c, oc, fetch(c, oc))

----------------------------------------------------------------------------
(* The inputs: instruction images, device lists, bytes and addresses *)

\* a 127-byte image that starts with `prefix` and is 0 after it
Image(prefix) == Bank(InstBankLen, prefix)

\* a device that declares `address` (an echo device: load answers the
\* last byte pushed)
EchoDevice(address) == [address |-> address, kind |-> "echo", value |-> 0]

DeviceLists ==
    {<<>>, <<EchoDevice(200)>>, <<EchoDevice(194), EchoDevice(255)>>}

\* operand bytes: the corners of the unsigned and of the signed range and
\* the bytes of the examples
ByteSamples == {0, 1, 2, 3, 7, 10, 15, 100, 127, 128, 170, 200, 240, 250, 253, 255}

\* operand addresses: both ends of every range of the partition
AddrSamples == {0, 1, 2, 3, 5, 126, 127, 128, 191, 192, 193, 194, 200, 255}

\* the programs of the router specification: a few first instructions that
\* write through the router (bank switches included)
MainPrograms ==
    { <<0>>,                     \* NoOp
      <<1, 1, 2>>,               \* And 1 2
      <<12, 3, 192, 7>>,         \* Copy [3] -> instruction-bank pointer
      <<12, 3, 193, 7>>,         \* Copy [3] -> data-bank pointer
      <<12, 3, 128, 9>>,         \* Copy [3] -> data address 128
      <<12, 3, 127, 9>>,         \* Copy [3] -> instruction address 127
      <<13, 3, 4, 5, 5>>,        \* CompEq [3] [4]
      <<1, 200, 2>>,             \* And with a device address
      <<1, 194, 255>>,           \* And with two device addresses
      <<12, 3, 4, 9>> }          \* Copy [3] -> instruction address 4

\* addresses and bytes of the direct router calls
CallAddrs == {0, 1, 126, 127, 128, 191, 192, 193, 200}
CallBytes == {0, 7, 255}

\* the images of the tick specification: every opcode with every sign
\* combination on every pair of sample bytes (operands at addresses 3, 4) ...
AluPrograms ==
    { <<b0, 3, 4, x, y>> : b0 \in 0..63, x \in ByteSamples, y \in ByteSamples }

\* ... and every opcode on every pair of sample addresses
AddrPrograms ==
    { <<op, a1, a2, 170, 15, v>> : op \in 0..15, a1 \in AddrSamples,
                                   a2 \in AddrSamples, v \in {9, 253} }

\* ... and a NoOp followed by every opcode whose first operand is address
\* 3, the address of its own opcode byte
SelfPrograms ==
    { <<0, 0, 0, op, 3, a2, 9>> : op \in 0..15, a2 \in {5, 128} }

----------------------------------------------------------------------------
(* The state machine *)

\* CPU::new(Image(program), devices) under either build
InitWith(programs, devlists) ==
    \E program \in programs, devices \in devlists, oc \in BOOLEAN :
        \E n \in {new(Image(program), devices)} :
            /\ cpu = n.cpu
            /\ status = IF n.ok THEN "running" ELSE "panicked"
            /\ overflow_checks = oc
            /\ last = [op |-> "new", program |-> program, devices |-> devices,
                       ret |-> IF n.ok THEN "Ok" ELSE "Panic"]
            /\ ticks = 0
            /\ calls = 0

\* the host calls tick()
Tick ==
    /\ status = "running"
    /\ ticks < MaxTicks
    /\ \E t \in {tick(cpu, overflow_checks)} :
           /\ cpu' = t.cpu
           /\ status' = IF t.ret = "Panic" THEN "panicked" ELSE "running"
           /\ last' = [op |-> "tick", pre |-> cpu, fetched |-> t.fetched,
                       inst |-> t.inst, ret |-> t.ret]
    /\ ticks' = ticks + 1
    /\ UNCHANGED <<overflow_checks, calls>>

\* a direct call of push(addr, data)
DoPush ==
    /\ status = "running"
    /\ calls < MaxCalls
    /\ \E addr \in CallAddrs, data \in CallBytes :
        \E p \in {push(cpu, addr, data)} :
            /\ cpu' = p.cpu
            /\ status' = IF p.ok THEN "running" ELSE "panicked"
            /\ last' = [op |-> "push", pre |-> cpu, addr |-> addr, data |-> data,
                        ret |-> IF p.ok THEN "Ok" ELSE "Panic"]
    /\ calls' = calls + 1
    /\ UNCHANGED <<overflow_checks, ticks>>

\* a direct call of load(addr)
DoLoad ==
    /\ status = "running"
    /\ calls < MaxCalls
    /\ \E addr \in CallAddrs :
        \E l \in {load(cpu, addr)} :
            /\ status' = IF l.ok THEN "running" ELSE "panicked"
            /\ last' = [op |-> "load", pre |-> cpu, addr |-> addr, val |-> l.val,
                        ret |-> IF l.ok THEN "Ok" ELSE "Panic"]
    /\ calls' = calls + 1
    /\ UNCHANGED <<cpu, overflow_checks, ticks>>

\* The router specification: construction (with and without devices), then
\* ticks and direct router calls in any order
Init == InitWith(MainPrograms, DeviceLists)
Next == Tick \/ DoPush \/ DoLoad
Spec == Init /\ [][Next]_vars

\* The tick specification: construction from every image of the two
\* families, then ticks
InitTick == InitWith(AluPrograms \cup AddrPrograms \cup SelfPrograms, {<<>>})
NextTick == Tick
SpecTick == InitTick /\ [][NextTick]_vars

\* The decoder specification: from_3bytes applied to 3 bytes
DecodeBytes == {0, 1, 127, 128, 200, 255}

InitDecode ==
    \E b0 \in U8, b1 \in DecodeBytes, b2 \in DecodeBytes :
        /\ cpu = NoCPU
        /\ status = "running"
        /\ overflow_checks = FALSE
        /\ last = [op |-> "bytes", fetched |-> <<b0, b1, b2>>]
        /\ ticks = 0
        /\ calls = 0

Decode ==
    /\ last.op = "bytes"
    /\ last' = [op |-> "decode", fetched |-> last.fetched,
                inst |-> from_3bytes(last.fetched)]
    /\ UNCHANGED <<cpu, status, overflow_checks, ticks, calls>>

NextDecode == Decode
SpecDecode == InitDecode /\ [][NextDecode]_vars

----------------------------------------------------------------------------
(* Vocabulary of the properties *)

\* the storage location an address names in CPU c (the bank is the one
\* active in c)
Loc(c, addr) ==
    IF addr = 0 THEN <<"reg_zero">>
    ELSE IF addr <= 127 THEN <<"inst", c.inst_mem.pointer, addr>>
    ELSE IF addr <= 191 THEN <<"data", c.data_mem.pointer, addr - 128>>
    ELSE IF addr = 192 THEN <<"inst_pointer">>
    ELSE IF addr = 193 THEN <<"data_pointer">>
    ELSE <<"device", addr>>

\* the cells <<bank, i>> whose content differs between bankers b1 and b2
\* made from the same bank (cells outside both deltas hold the byte of that
\* bank in both)
ChangedCells(b1, b2) ==
    { k \in (DOMAIN b1.delta) \cup (DOMAIN b2.delta) :
        Cell(b1, k[1], k[2]) # Cell(b2, k[1], k[2]) }

\* the storage locations whose content differs between CPUs c1 and c2
ChangedLocs(c1, c2) ==
    (IF c1.reg_zero # c2.reg_zero THEN {<<"reg_zero">>} ELSE {})
    \cup (IF c1.inst_mem.pointer # c2.inst_mem.pointer THEN {<<"inst_pointer">>} ELSE {})
    \cup (IF c1.data_mem.pointer # c2.data_mem.pointer THEN {<<"data_pointer">>} ELSE {})
    \cup { <<"inst", k[1], k[2]>> : k \in ChangedCells(c1.inst_mem, c2.inst_mem) }
    \cup { <<"data", k[1], k[2]>> : k \in ChangedCells(c1.data_mem, c2.data_mem) }

\* the banks of a banker are those it was made with
SameBase(c1, c2) ==
    c1.inst_mem.base = c2.inst_mem.base /\ c1.data_mem.base = c2.data_mem.base

\* bit i of byte x
Bit(x, i) == (x \div (2 ^ i)) % 2

IsTick == last.op = "tick"
TickRan == last.op = "tick" /\ last.ret # "Panic"
IsPush == last.op = "push"
PushRan == last.op = "push" /\ last.ret = "Ok"

InstAddrs == 1..127
DataAddrs == 128..191
DeviceAddrs == 194..255

----------------------------------------------------------------------------
(* C1 *)

\* C1: for every address a in 1..=127 (instruction bank) and in 128..=191
\* (data bank), every byte v and every value of the bank pointer,
\* push(a, v) does not fault and load(a) then returns v.
C1_PushLoadRoundTrip ==
    (IsPush /\ last.addr \in InstAddrs \cup DataAddrs)
        => (last.ret = "Ok" /\ load(cpu, last.addr) = Val(last.data))

----------------------------------------------------------------------------
(* C2 *)

\* a switch of the bank pointer at `ptr` to p2 and back to p1, by two pushes
SwitchAndBack(c, ptr, p1, p2) == push(push(c, ptr, p2).cpu, ptr, p1).cpu

\* C2: bank isolation.  Whatever the operation (a push or a tick), the
\* cells it changes in a memory lie in the bank that was active in that
\* memory when it started: the other 255 banks keep their content; and
\* after a write at an address of a memory, switching that memory's pointer
\* to any p2 and back leaves load of the address returning the byte
\* written.  Both for the instruction memory (pointer at 192) and the data
\* memory (pointer at 193).
C2_BankIsolation ==
    /\ (IsTick \/ IsPush) =>
        /\ SameBase(last.pre, cpu)
        /\ \A k \in ChangedCells(last.pre.inst_mem, cpu.inst_mem) :
               k[1] = last.pre.inst_mem.pointer
        /\ \A k \in ChangedCells(last.pre.data_mem, cpu.data_mem) :
               k[1] = last.pre.data_mem.pointer
        /\ \A bank \in (0..(BankCount - 1)) \ {last.pre.inst_mem.pointer} :
               \A i \in {0, 1, 3, InstBankLen - 1} :
                   Cell(cpu.inst_mem, bank, i) = Cell(last.pre.inst_mem, bank, i)
        /\ \A bank \in (0..(BankCount - 1)) \ {last.pre.data_mem.pointer} :
               \A i \in {0, DataBankLen - 1} :
                   Cell(cpu.data_mem, bank, i) = Cell(last.pre.data_mem, bank, i)
    /\ (PushRan /\ last.addr \in InstAddrs) =>
        \A p2 \in U8 :
            load(SwitchAndBack(cpu, InstPtrAddr, cpu.inst_mem.pointer, p2), last.addr)
                = Val(last.data)
    /\ (PushRan /\ last.addr \in DataAddrs) =>
        \A p2 \in U8 :
            load(SwitchAndBack(cpu, DataPtrAddr, cpu.data_mem.pointer, p2), last.addr)
                = Val(last.data)
    /\ (PushRan /\ last.addr \in {InstPtrAddr, DataPtrAddr}) =>
        ChangedLocs(last.pre, cpu) \subseteq {Loc(cpu, last.addr)}

\* a write into a bank other than bank 0 of the instruction memory happened
C2_Witness ==
    /\ PushRan
    /\ last.addr \in InstAddrs
    /\ last.pre.inst_mem.pointer = 7
    /\ <<7, last.addr>> \in ChangedCells(last.pre.inst_mem, cpu.inst_mem)

----------------------------------------------------------------------------
(* C3 *)

\* C3: every device supplied at construction that declares an address d in
\* 194..=255 is registered at slot d - 194, and load(d) is routed to it
\* instead of faulting.
C3_DeviceRegisteredAndRouted ==
    (last.op = "new") =>
        \A n \in 1..Len(last.devices) :
            (last.devices[n].address \in DeviceAddrs) =>
                /\ last.ret = "Ok"
                /\ Len(cpu.devices) >= last.devices[n].address - DeviceBase + 1
                /\ cpu.devices[last.devices[n].address - DeviceBase + 1] = last.devices[n]
                /\ load(cpu, last.devices[n].address).ok

----------------------------------------------------------------------------
(* C4 *)

\* C4: a tick that completes returns Running, never Errored or Halted, and
\* leaves the engine running.
C4_TickReturnsRunning ==
    TickRan => (last.ret = "Running" /\ status = "running")

\* a second tick completed, for a NoOp
C4_Witness ==
    TickRan /\ ticks = 2 /\ last.inst.op = "NoOp" /\ last.ret = "Running"

----------------------------------------------------------------------------
(* C5 *)

\* the byte held at a storage location
ReadLoc(c, loc) ==
    CASE loc[1] = "reg_zero" -> c.reg_zero
      [] loc[1] = "inst" -> Cell(c.inst_mem, loc[2], loc[3])
      [] loc[1] = "data" -> Cell(c.data_mem, loc[2], loc[3])
      [] loc[1] = "inst_pointer" -> c.inst_mem.pointer
      [] loc[1] = "data_pointer" -> c.data_mem.pointer

\* the operand bytes the last tick loaded
Data1 == load(last.pre, last.inst.arg1).val
Data2 == load(last.pre, last.inst.arg2).val

CompareOps == {"CompEq", "CompGt", "CompLt"}

\* the comparison of the last tick fails
ComparisonFails ==
    CASE last.inst.op = "CompEq" -> Data1 # Data2
      [] last.inst.op = "CompGt" -> ~(Data1 > Data2)
      [] last.inst.op = "CompLt" -> ~(Data1 < Data2)

\* C5: a comparison advances reg_zero by 6 exactly when it fails (CompEq:
\* data1 # data2, CompGt: data1 <= data2, CompLt: data1 >= data2) and by 3
\* otherwise, and writes nothing back: both memories and both bank
\* pointers are as before the tick.
C5_CompareAdvance ==
    (IsTick /\ last.inst.op \in CompareOps) =>
        /\ cpu.inst_mem = last.pre.inst_mem
        /\ cpu.data_mem = last.pre.data_mem
        /\ ChangedLocs(last.pre, cpu) \subseteq {<<"reg_zero">>}
        /\ TickRan =>
            cpu.reg_zero = last.pre.reg_zero + (IF ComparisonFails THEN 6 ELSE 3)
        /\ (load(last.pre, last.inst.arg1).ok /\ load(last.pre, last.inst.arg2).ok)
            => TickRan

\* a CompGt on equal operands skipped the next instruction
C5_Witness ==
    /\ TickRan
    /\ last.inst.op = "CompGt"
    /\ Data1 = Data2
    /\ cpu.reg_zero = last.pre.reg_zero + 6

----------------------------------------------------------------------------
(* C6 *)

\* C6: Copy stores the byte loaded at arg1 at arg2's location and leaves
\* arg1's location as it was; reg_zero moves by the tick's own +3 only,
\* and when arg2 is address 0 the byte stored becomes reg_zero and the +3
\* is applied on top: the tick leaves reg_zero = (byte at arg1 + 3) mod 256,
\* which is where the next tick fetches.
C6_Copy ==
    (/\ IsTick
     /\ last.inst.op = "Copy"
     /\ load(last.pre, last.inst.arg1).ok
     /\ push(last.pre, last.inst.arg2, 0).ok)
    => /\ last.ret = "Running"
       /\ last.inst.arg2 # 0 =>
           /\ ReadLoc(cpu, Loc(last.pre, last.inst.arg2)) = Data1
           /\ cpu.reg_zero = last.pre.reg_zero + 3
       /\ last.inst.arg2 = 0 =>
           /\ cpu.reg_zero = (Data1 + 3) % 256
           /\ fetch(cpu, overflow_checks).ok =>
               fetch(cpu, overflow_checks).bytes[1]
                   = Cell(cpu.inst_mem, cpu.inst_mem.pointer, (Data1 + 3) % 256)
       /\ last.inst.arg1 # 0 =>
           ReadLoc(cpu, Loc(last.pre, last.inst.arg1)) = Data1
       /\ ChangedLocs(last.pre, cpu)
           \subseteq {Loc(last.pre, last.inst.arg2), <<"reg_zero">>}

----------------------------------------------------------------------------
(* C7 *)

ArithmeticOps == {"Add", "Sub", "Mul", "Div"}

\* the mathematical result of the last tick's arithmetic on same-sign
\* operands, before any wrap
ExactResult ==
    LET s  == last.inst.arg1_signed
        x  == IF s THEN I8FromByte(Data1) ELSE Data1
        y  == IF s THEN I8FromByte(Data2) ELSE Data2
    IN  CASE last.inst.op = "Add" -> x + y
          [] last.inst.op = "Sub" -> x - y
          [] last.inst.op = "Mul" -> x * y
          [] last.inst.op = "Div" -> TruncDiv(x, y)

\* C7: Add, Sub, Mul and Div with both sign flags equal store at arg1's
\* address the result wrapped to 8 bits, for all operand bytes (divisor
\* non-zero): a result outside the 8-bit range wraps, it does not fault.
C7_SameSignArithmeticWraps ==
    (/\ IsTick
     /\ last.inst.op \in ArithmeticOps
     /\ last.inst.arg1_signed = last.inst.arg2_signed
     /\ load(last.pre, last.inst.arg1).ok
     /\ load(last.pre, last.inst.arg2).ok
     /\ push(last.pre, last.inst.arg1, 0).ok
     /\ ~(last.inst.op = "Div" /\ Data2 = 0))
    => /\ execute(last.pre, last.inst, overflow_checks).ok
       /\ ReadLoc(execute(last.pre, last.inst, overflow_checks).cpu,
                  Loc(last.pre, last.inst.arg1)) = ExactResult % 256

----------------------------------------------------------------------------
(* C8 *)

OpcodeTable ==
    << "NoOp", "And", "Or", "Not", "Add", "Sub", "Mul", "Div",
       "SL", "SR", "RL", "RR", "Copy", "CompEq", "CompGt", "CompLt" >>

\* the operand fields of each variant
FlagFields == {"op", "halt_on_error", "store_debug_info", "arg1_signed", "arg2_signed"}
FieldsOf(op) ==
    IF op = "NoOp" THEN FlagFields
    ELSE IF op \in {"Not", "SL", "SR", "RL", "RR"} THEN FlagFields \cup {"arg1"}
    ELSE FlagFields \cup {"arg1", "arg2"}

\* C8: decoding is total: every 3 bytes yield the variant that bits 3..0
\* of byte 0 select in the table, with halt_on_error = bit 7,
\* store_debug_info = bit 6, arg1_signed = bit 5, arg2_signed = bit 4,
\* arg1 = byte 1 and arg2 = byte 2; the invalid-opcode default is never
\* taken.
C8_Decode ==
    (last.op = "decode") =>
        LET b0 == last.fetched[1]
            i  == last.inst
        IN  /\ i.op # "InvalidOpcode"
            /\ i.op = OpcodeTable[(b0 % 16) + 1]
            /\ DOMAIN i = FieldsOf(i.op)
            /\ i.halt_on_error = (Bit(b0, 7) = 1)
            /\ i.store_debug_info = (Bit(b0, 6) = 1)
            /\ i.arg1_signed = (Bit(b0, 5) = 1)
            /\ i.arg2_signed = (Bit(b0, 4) = 1)
            /\ ("arg1" \in DOMAIN i) => (i.arg1 = last.fetched[2])
            /\ ("arg2" \in DOMAIN i) => (i.arg2 = last.fetched[3])

\* byte 0xAE (halt_on_error, arg1_signed, opcode 14) was decoded as CompGt
C8_Witness ==
    /\ last.op = "decode"
    /\ last.fetched = <<174, 200, 255>>
    /\ last.inst.op = "CompGt"
    /\ last.inst.halt_on_error
    /\ ~last.inst.store_debug_info

----------------------------------------------------------------------------
(* C9 *)

BitwiseOps == {"And", "Or", "Not", "SL", "SR", "RL", "RR"}

\* the byte whose bit i is P(i), for a set `ones` of the bits that are 1
ByteOfBits(ones) == CHOOSE r \in U8 : \A i \in 0..7 : (Bit(r, i) = 1) <=> (i \in ones)

\* what the last tick's bitwise instruction is to store
BitwiseResult ==
    CASE last.inst.op = "And" ->
           ByteOfBits({i \in 0..7 : Bit(Data1, i) = 1 /\ Bit(Data2, i) = 1})
      [] last.inst.op = "Or" ->
           ByteOfBits({i \in 0..7 : Bit(Data1, i) = 1 \/ Bit(Data2, i) = 1})
      [] last.inst.op = "Not" ->
           ByteOfBits({i \in 0..7 : Bit(Data1, i) = 0})
      [] last.inst.op = "SL" ->
           ByteOfBits({i \in 1..7 : Bit(Data1, i - 1) = 1})
      [] last.inst.op = "SR" ->
           ByteOfBits({i \in 0..6 : Bit(Data1, i + 1) = 1})
      [] last.inst.op = "RL" ->
           ByteOfBits({i \in 0..7 : Bit(Data1, (i + 7) % 8) = 1})
      [] last.inst.op = "RR" ->
           ByteOfBits({i \in 0..7 : Bit(Data1, (i + 1) % 8) = 1})

\* C9: a bitwise instruction whose operands load stores at arg1's
\* address, and nowhere else, the result computed from the bytes loaded:
\* And data1 & data2, Or data1 | data2, Not the complement, SL/SR the
\* logical shift by one bit (a zero enters), RL/RR the rotation by one bit.
\* reg_zero is the only other location that moves: by the tick's +3, on
\* top of the result when arg1 is address 0 (the result itself stays in
\* reg_zero when that addition faults).
C9_Bitwise ==
    (/\ IsTick
     /\ last.inst.op \in BitwiseOps
     /\ load(last.pre, last.inst.arg1).ok
     /\ (last.inst.op \in {"And", "Or"}) => load(last.pre, last.inst.arg2).ok
     /\ push(last.pre, last.inst.arg1, 0).ok)
    => /\ last.inst.arg1 # 0 =>
           /\ last.ret = "Running"
           /\ ReadLoc(cpu, Loc(last.pre, last.inst.arg1)) = BitwiseResult
           /\ cpu.reg_zero = last.pre.reg_zero + 3
       /\ last.inst.arg1 = 0 =>
           cpu.reg_zero = IF last.ret = "Running"
                          THEN (BitwiseResult + 3) % 256
                          ELSE BitwiseResult
       /\ ChangedLocs(last.pre, cpu)
           \subseteq {Loc(last.pre, last.inst.arg1), <<"reg_zero">>}
       /\ SameBase(last.pre, cpu)

\* an SR of a byte with the sign bit set stored its half, sign bit clear
C9_Witness ==
    /\ TickRan
    /\ last.inst.op = "SR"
    /\ last.inst.arg1 = 3
    /\ Data1 = 240
    /\ ReadLoc(cpu, Loc(last.pre, 3)) = 120

----------------------------------------------------------------------------
(* C10 *)

\* the CPU is as CPU::new leaves it for the image of `program`: the image
\* in all 256 instruction banks, 0 in all 256 data banks, reg_zero and both
\* pointers 0
FreshFrom(c, program) ==
    /\ c.reg_zero = 0
    /\ c.inst_mem.pointer = 0
    /\ c.data_mem.pointer = 0
    /\ \A bank \in 0..(BankCount - 1) :
        /\ \A i \in 0..(InstBankLen - 1) :
               Cell(c.inst_mem, bank, i) = IF i < Len(program) THEN program[i + 1] ELSE 0
        /\ \A i \in 0..(DataBankLen - 1) : Cell(c.data_mem, bank, i) = 0

\* C10: a freshly constructed CPU holds the image in all 256 instruction
\* banks, zeroed data banks, reg_zero = 0 and both pointers 0; when its
\* image starts with And (flags 0), arg1 = 1, arg2 = 2, the first tick
\* leaves at instruction address 1 of the active bank the AND of the bytes
\* that were at instruction addresses 1 and 2, and reg_zero = 3.
C10_FirstTick ==
    /\ (last.op = "new" /\ last.ret = "Ok") => FreshFrom(cpu, last.program)
    /\ (IsTick /\ ticks = 1 /\ calls = 0 /\ last.fetched = <<1, 1, 2>>) =>
        /\ last.ret = "Running"
        /\ load(cpu, 1) =
            Val(ByteOfBits({i \in 0..7 : Bit(load(last.pre, 1).val, i) = 1
                                         /\ Bit(load(last.pre, 2).val, i) = 1}))
        /\ cpu.reg_zero = 3
        /\ cpu.inst_mem.pointer = 0
    /\ ByteOfBits({i \in 0..7 : Bit(170, i) = 1 /\ Bit(15, i) = 1}) = 10

\* the first tick of a fresh CPU executed And 1 2
C10_Witness ==
    /\ IsTick
    /\ ticks = 1
    /\ calls = 0
    /\ last.fetched = <<1, 1, 2>>
    /\ last.inst.op = "And"
    /\ cpu.reg_zero = 3

----------------------------------------------------------------------------
(* C11 *)

\* load(reg_zero + k) of the last tick's starting state, the address taken
\* modulo 256
RouterByte(k) == load(last.pre, (last.pre.reg_zero + k) % 256)

\* C11: a tick fetches through the router: the 3 bytes it decodes are
\* load(reg_zero), load(reg_zero + 1) and load(reg_zero + 2) under the
\* unified partition (address 0 register zero, 1..=127 the active
\* instruction bank, 128..=191 the active data bank, 192/193 the
\* pointers), and it decodes whenever those three loads return.
C11_FetchThroughRouter ==
    IsTick =>
        /\ (last.fetched # <<>>) =>
            /\ RouterByte(0).ok /\ RouterByte(1).ok /\ RouterByte(2).ok
            /\ last.fetched = <<RouterByte(0).val, RouterByte(1).val, RouterByte(2).val>>
        /\ (RouterByte(0).ok /\ RouterByte(1).ok /\ RouterByte(2).ok)
            => last.fetched # <<>>

----------------------------------------------------------------------------
(* C12 *)

\* the operand addresses the last tick's instruction names
OperandAddrs ==
    (IF "arg1" \in DOMAIN last.inst THEN {last.inst.arg1} ELSE {})
    \cup (IF "arg2" \in DOMAIN last.inst THEN {last.inst.arg2} ELSE {})

\* C12: in every state reached by ticks from a 127-byte image, every
\* banked access of the tick uses an offset inside the bank: the three
\* fetch offsets reg_zero .. reg_zero + 2 and the offset of every operand
\* routed to the instruction bank are at most 126, that of every operand
\* routed to the data bank at most 63.
C12_BankOffsetsInRange ==
    IsTick =>
        /\ last.pre.reg_zero + 2 <= InstBankLen - 1
        /\ \A a \in OperandAddrs :
            /\ (a \in InstAddrs) => a <= InstBankLen - 1
            /\ (a \in DataAddrs) => a - DataBase <= DataBankLen - 1

----------------------------------------------------------------------------
(* C13 *)

\* the last tick's starting state after the instruction's own effect
AfterEffect == execute(last.pre, last.inst, overflow_checks)

\* C13: the advance is unconditional and wraps: once the instruction's
\* effect is done (a write-back to address 0 and a comparison's extra +3
\* included), the tick returns with reg_zero = (reg_zero + 3) mod 256, for
\* every value of reg_zero, and does not fault.
C13_AdvanceWraps ==
    (IsTick /\ last.fetched # <<>> /\ AfterEffect.ok) =>
        /\ last.ret = "Running"
        /\ cpu = [AfterEffect.cpu EXCEPT !.reg_zero = (AfterEffect.cpu.reg_zero + 3) % 256]

----------------------------------------------------------------------------
(* C14 *)

\* addresses of both ends and of the middle of the two banked ranges
BankedSamples == {1, 4, 126, 128, 191}

\* bank pointers: both ends, the middle and the bytes the programs write
PointerSamples == {0, 7, 128, 255}

\* the banker an address of 1..=191 is routed to, and its offset there
BankerOf(c, a) == IF a <= 127 THEN c.inst_mem ELSE c.data_mem
OffsetOf(a) == IF a <= 127 THEN a ELSE a - DataBase

\* in CPU c every load and push in 1..=126 and 128..=191 targets the banks
\* the two pointers select, and the next tick fetches from the active
\* instruction bank
TargetsSelectedBanks(c) ==
    /\ \A a \in BankedSamples :
        /\ load(c, a) = Val(Cell(BankerOf(c, a), BankerOf(c, a).pointer, OffsetOf(a)))
        /\ push(c, a, 7).ok
        /\ ChangedCells(BankerOf(c, a), BankerOf(push(c, a, 7).cpu, a))
               \subseteq {<<BankerOf(c, a).pointer, OffsetOf(a)>>}
        /\ Cell(BankerOf(push(c, a, 7).cpu, a), BankerOf(c, a).pointer, OffsetOf(a)) = 7
    /\ (c.reg_zero <= InstBankLen - InstWidth) =>
        tick(c, overflow_checks).fetched =
            << Cell(c.inst_mem, c.inst_mem.pointer, c.reg_zero),
               Cell(c.inst_mem, c.inst_mem.pointer, c.reg_zero + 1),
               Cell(c.inst_mem, c.inst_mem.pointer, c.reg_zero + 2) >>

----------------------------------------------------------------------------
(* C15 *)

\* the operands of the last tick as the sign flags read them: a flagged
\* byte as two's complement, the other as unsigned
Operand1 == IF last.inst.arg1_signed THEN I8FromByte(Data1) ELSE Data1
Operand2 == IF last.inst.arg2_signed THEN I8FromByte(Data2) ELSE Data2

Abs(x) == IF x >= 0 THEN x ELSE -x

\* the 16-bit signed intermediate of a mixed-sign operation (the quotient
\* of Div is the one toward zero)
Intermediate ==
    CASE last.inst.op = "Add" -> Operand1 + Operand2
      [] last.inst.op = "Sub" -> Operand1 - Operand2
      [] last.inst.op = "Mul" -> Operand1 * Operand2
      [] last.inst.op = "Div" ->
           CHOOSE q \in -255..255 :
               /\ Abs(q) * Abs(Operand2) <= Abs(Operand1)
               /\ Abs(Operand1) < (Abs(q) + 1) * Abs(Operand2)
               /\ (q # 0) => ((q > 0) = ((Operand1 > 0) = (Operand2 > 0)))

\* C15: Add, Sub, Mul and Div with exactly one sign flag set read the
\* flagged operand as two's complement and the other as unsigned, compute
\* in a 16-bit signed intermediate (Div truncating toward zero, divisor
\* non-zero), which the result always fits, and store its low 8 bits at
\* arg1's address, for all pairs of operand bytes.
C15_MixedSignArithmetic ==
    (/\ IsTick
     /\ last.inst.op \in ArithmeticOps
     /\ last.inst.arg1_signed # last.inst.arg2_signed
     /\ load(last.pre, last.inst.arg1).ok
     /\ load(last.pre, last.inst.arg2).ok
     /\ push(last.pre, last.inst.arg1, 0).ok
     /\ ~(last.inst.op = "Div" /\ Data2 = 0))
    => /\ Intermediate \in -32768..32767
       /\ AfterEffect.ok
       /\ ReadLoc(AfterEffect.cpu, Loc(last.pre, last.inst.arg1)) = Intermediate % 256
       /\ ChangedLocs(last.pre, AfterEffect.cpu) \subseteq {Loc(last.pre, last.inst.arg1)}

\* an unsigned 200 divided by a signed 0xFF (-1) stored the low byte of
\* -200
C15_Witness ==
    /\ TickRan
    /\ last.inst.op = "Div"
    /\ ~last.inst.arg1_signed
    /\ last.inst.arg2_signed
    /\ last.inst.arg1 = 3
    /\ Data1 = 200
    /\ Data2 = 255
    /\ ReadLoc(cpu, Loc(last.pre, 3)) = 56

----------------------------------------------------------------------------
(* C17 *)

\* the last tick's instruction under the sign flags s1, s2
WithSigns(s1, s2) == [last.inst EXCEPT !.arg1_signed = s1, !.arg2_signed = s2]

\* C17: Div is not guarded against a zero divisor: when arg2 loads as 0
\* the tick faults, under each of the four sign combinations, and nothing
\* is written: arg1's location and the rest of the CPU are as before.
C17_DivByZeroFaults ==
    (/\ IsTick
     /\ last.inst.op = "Div"
     /\ load(last.pre, last.inst.arg1).ok
     /\ load(last.pre, last.inst.arg2).ok
     /\ Data2 = 0)
    => /\ last.ret = "Panic"
       /\ cpu = last.pre
       /\ \A s1 \in BOOLEAN, s2 \in BOOLEAN :
            execute(last.pre, WithSigns(s1, s2), overflow_checks) = Panicked(last.pre)

\* a Div of a signed by an unsigned operand that loaded 0 faulted
C17_Witness ==
    /\ IsTick
    /\ last.inst.op = "Div"
    /\ last.inst.arg1_signed
    /\ ~last.inst.arg2_signed
    /\ Data1 = 7
    /\ Data2 = 0
    /\ last.ret = "Panic"

----------------------------------------------------------------------------
(* C16 *)

\* the cell of the opcode byte the last tick fetched
OpcodeCell == <<"inst", last.pre.inst_mem.pointer, last.pre.reg_zero>>

\* the last tick's starting state with bits 7 and 6 of the opcode byte set
\* to the two bits of hi
WithFlagBits(hi) ==
    [last.pre EXCEPT !.inst_mem =
        SetCell(last.pre.inst_mem, last.pre.inst_mem.pointer, last.pre.reg_zero,
                (last.fetched[1] % 64) + (64 * hi))]

\* the tick from the state that differs in bits 7 and 6 of the opcode byte
\* only gives the same result and the same successor state apart from that
\* byte
SameApartFromFlags(hi) ==
    /\ tick(WithFlagBits(hi), overflow_checks).ret = last.ret
    /\ ChangedLocs(tick(WithFlagBits(hi), overflow_checks).cpu, cpu) \subseteq {OpcodeCell}

\* the addresses the last tick's instruction loads
LoadedAddrs ==
    (IF "arg1" \in DOMAIN last.inst THEN {last.inst.arg1} ELSE {})
    \cup (IF "arg2" \in DOMAIN last.inst /\ last.inst.op # "Copy"
          THEN {last.inst.arg2} ELSE {})

\* the last tick's instruction loads its own opcode byte as an operand
LoadsOwnOpcode == last.pre.reg_zero # 0 /\ last.pre.reg_zero \in LoadedAddrs

\* C16 as stated: two ticks from states that differ only in bits 7 and 6
\* of the fetched opcode byte give the same result and the same successor
\* state apart from that byte (same reg_zero, pointers, data memory and
\* every other instruction byte).
C16_FlagsNotConsulted_Original ==
    (IsTick /\ last.fetched # <<>>) => \A hi \in 0..3 : SameApartFromFlags(hi)

\* C16, amended: the same, for every tick whose instruction does not load
\* its own opcode byte as an operand.
C16_FlagsNotConsulted ==
    (IsTick /\ last.fetched # <<>> /\ ~LoadsOwnOpcode)
        => \A hi \in 0..3 : SameApartFromFlags(hi)

\* an RL decoded with halt_on_error set ran, as it does without the flag
C16_Witness ==
    /\ TickRan
    /\ last.inst.op = "RL"
    /\ last.inst.halt_on_error
    /\ ~LoadsOwnOpcode
    /\ tick(WithFlagBits(0), overflow_checks).ret = "Running"
    /\ tick(WithFlagBits(0), overflow_checks).cpu.reg_zero = cpu.reg_zero

----------------------------------------------------------------------------
(* C18 *)

\* the addresses the devices handed to CPU::new declare
Declared(devices) == { devices[n].address : n \in DOMAIN devices }

\* the write-back target of the last tick's two-operand instruction (none
\* for a comparison)
WriteBackAddr == IF last.inst.op = "Copy" THEN last.inst.arg2 ELSE last.inst.arg1

\* C18: within a tick of a two-operand instruction the side effects are
\* ordered: arg1 is loaded, then arg2, then the write-back is done, then
\* reg_zero advances.  So a tick whose load faults has written nothing; a
\* write-back to address 0 is what the advance adds 3 to, and is in place
\* when the advance faults; and when both operands name devices handed to
\* CPU::new, the tick performs both loads on them, arg1's first.
C18_OrderedSideEffects ==
    /\ (IsTick /\ "arg2" \in DOMAIN last.inst) =>
        /\ (~load(last.pre, last.inst.arg1).ok \/ ~load(last.pre, last.inst.arg2).ok)
            => cpu = last.pre
        /\ (/\ last.inst.op \in {"And", "Or", "Copy"}
            /\ load(last.pre, last.inst.arg1).ok
            /\ load(last.pre, last.inst.arg2).ok
            /\ WriteBackAddr = 0) =>
              cpu.reg_zero =
                  IF last.ret = "Running"
                  THEN ((IF last.inst.op = "Copy" THEN Data1 ELSE BitwiseResult) + 3) % 256
                  ELSE (IF last.inst.op = "Copy" THEN Data1 ELSE BitwiseResult)
    /\ (/\ last.op = "new"
        /\ Len(last.program) >= 3
        /\ from_3bytes(SubSeq(last.program, 1, 3)).op = "And"
        /\ {last.program[2], last.program[3]} \subseteq Declared(last.devices)) =>
          /\ last.ret = "Ok"
          /\ tick(cpu, overflow_checks).ret = "Running"

----------------------------------------------------------------------------
(* C19 *)

\* C19: a comparison compares the two loaded bytes as unsigned values
\* 0..255 whatever the arg1_signed / arg2_signed flags: the skip decision
\* is that of the unsigned comparison and is the same under all four sign
\* combinations (0xFF is greater than 0x01 also when both are flagged
\* signed).
C19_ComparisonsUnsigned ==
    (/\ IsTick
     /\ last.inst.op \in CompareOps
     /\ load(last.pre, last.inst.arg1).ok
     /\ load(last.pre, last.inst.arg2).ok)
    => /\ last.ret = "Running"
       /\ (cpu.reg_zero = last.pre.reg_zero + 6) <=>
            CASE last.inst.op = "CompEq" -> Data1 # Data2
              [] last.inst.op = "CompGt" -> Data1 <= Data2
              [] last.inst.op = "CompLt" -> Data1 >= Data2
       /\ \A s1 \in BOOLEAN, s2 \in BOOLEAN :
            process(last.pre, WithSigns(s1, s2), overflow_checks).cpu = cpu

\* a CompGt with both operands flagged signed found 0xFF greater than 0x01
\* and did not skip
C19_Witness ==
    /\ TickRan
    /\ last.inst.op = "CompGt"
    /\ last.inst.arg1_signed
    /\ last.inst.arg2_signed
    /\ Data1 = 255
    /\ Data2 = 1
    /\ cpu.reg_zero = last.pre.reg_zero + 3

----------------------------------------------------------------------------
(* C20 *)

\* C20: a tick whose instruction names an invalid address (194..=255: no
\* memory and no device answers there), as an operand it loads or as its
\* write-back target, faults and commits nothing: reg_zero, both pointers
\* and every bank are as before the tick.
C20_FaultLeavesStateUnchanged ==
    (/\ IsTick
     /\ last.fetched # <<>>
     /\ OperandAddrs \cap DeviceAddrs # {})
    => /\ last.ret = "Panic"
       /\ cpu = last.pre
       /\ ChangedLocs(last.pre, cpu) = {}

\* a Copy whose load returned faulted on its write-back to address 200 and
\* left the CPU as it was
C20_Witness ==
    /\ IsTick
    /\ last.inst.op = "Copy"
    /\ last.inst.arg2 = 200
    /\ load(last.pre, last.inst.arg1).ok
    /\ last.ret = "Panic"
    /\ cpu = last.pre

=============================================================================
